---- MODULE Spec2Model ----
(***************************************************************************)
(* Model of the drugstore-web inventory console: the status classifier    *)
(* (lib/utils.ts and the badge components), the field-name translators    *)
(* (lib/utils.ts + services/api.ts, lib/transformers) and the API layer    *)
(* that carries product payloads between the forms and the server, and    *)
(* the screens: the product forms, the delete dialog and the product list *)
(* with the requests they keep in flight.                                 *)
(*                                                                         *)
(* The repository holds several generations of the same files.  Where two *)
(* generations define the same symbol differently (INVENTORY_CONSTANTS,   *)
(* inventoryApi) the generation in the build is a value chosen in Init.   *)
(***************************************************************************)
EXTENDS Integers, Sequences, FiniteSets, TLC

VARIABLES
    constants,   \* the INVENTORY_CONSTANTS object of the build
    now,         \* the wall clock, in ticks (what `new Date()` returns)
    product,     \* the product row being rendered
    shown,       \* what the last evaluation of the product's status gave
    apiVariant,  \* which inventoryApi object of services/api.ts is in the build
    server,      \* the product payload the server answers with
    form,        \* the product data a form holds when it submits
    handed,      \* the products the last API call handed to the UI
    wire,        \* the last create/update request as it went on the wire
    trip,        \* the last translator round trip that was evaluated
    wiring,      \* which components the application is assembled from
    ui,          \* the open/close flags, selections, filters and form status
    formData,    \* the field values the mounted product form holds
    list,        \* what the product list component holds and shows
    flights,     \* the create/update/delete requests in flight
    fetches,     \* the product fetches in flight
    db,          \* the product collection on the server
    query,       \* the query-driven product list: its filters and what it shows
    store,       \* the state of the inventory store
    picker       \* the date picker input: its value prop, its date and its effects

statusVars == <<constants, now, product, shown>>
apiVars == <<apiVariant, server, form, handed, wire>>
tripVars == <<trip>>
uiVars == <<wiring, ui, formData, list, flights, fetches, db>>
partVars == <<query, store, picker>>
vars == <<constants, now, product, shown, apiVariant, server, form, handed, wire, trip,
          wiring, ui, formData, list, flights, fetches, db, query, store, picker>>

----------------------------------------------------------------------------
(* Bounds of the model *)

\* clock resolution: ticks in one day (1000 * 60 * 60 * 24 ms in the code)
TicksPerDay == 2
\* expiry dates range over 0 .. MaxDays days
MaxDays == 33
\* how many ticks the clock may advance past the epoch
MaxTicks == 1
\* stock quantities and per-product thresholds range up to MaxQty
MaxQty == 11

\* the clock starts one day after time 0, so that past expiry dates exist
Epoch == TicksPerDay

----------------------------------------------------------------------------
(* JavaScript values that may be absent *)

\* `undefined`: an optional number is <<>> (absent) or <<n>>
Undefined == << >>

Num(n) == <<n>>

IsNum(x) == x # Undefined

\* a <= b in JavaScript: false as soon as an operand is undefined (NaN)
LessEq(a, b) == IsNum(a) /\ IsNum(b) /\ a[1] <= b[1]

\* a < b in JavaScript: false as soon as an operand is undefined (NaN)
Less(a, b) == IsNum(a) /\ IsNum(b) /\ a[1] < b[1]

----------------------------------------------------------------------------
(* types/inventory: the two generations of INVENTORY_CONSTANTS *)

INVENTORY_CONSTANTS_defaults ==
    [DEFAULT_MIN_STOCK |-> 10, EXPIRING_SOON_DAYS |-> 30]

INVENTORY_CONSTANTS_thresholds ==
    [LOW_STOCK_THRESHOLD |-> 10, EXPIRY_WARNING_DAYS |-> 30]

\* INVENTORY_CONSTANTS.<key>: undefined when the build's object lacks the key
ConstantOf(key) ==
    IF key \in DOMAIN constants THEN Num(constants[key]) ELSE Undefined

----------------------------------------------------------------------------
(* lib/utils.ts: the status predicates *)

isLowStock_exclusive(quantity, threshold) ==
    LET t == IF threshold = Undefined THEN ConstantOf("DEFAULT_MIN_STOCK") ELSE threshold
    IN  quantity > 0 /\ Less(Num(quantity), t)

\* isLowStock(quantity, threshold = INVENTORY_CONSTANTS.DEFAULT_MIN_STOCK)
isLowStock(quantity, threshold) ==
    LET t == IF threshold = Undefined THEN ConstantOf("DEFAULT_MIN_STOCK") ELSE threshold
    IN  quantity > 0 /\ LessEq(Num(quantity), t)

\* date-fns addDays: an invalid date (undefined) when the amount is undefined
addDays(date, amount) ==
    IF IsNum(amount) THEN Num(date + amount[1] * TicksPerDay) ELSE Undefined

\* date-fns isAfter / isBefore: false when either date is invalid
isAfter(date, dateToCompare) == Less(dateToCompare, date)

isBefore(date, dateToCompare) == Less(date, dateToCompare)

\* isExpiringSoon(expiryDate, daysThreshold = INVENTORY_CONSTANTS.EXPIRING_SOON_DAYS);
\* `today` is the value its `new Date()` returns
isExpiringSoon(expiryDate, daysThreshold, today) ==
    LET days == IF daysThreshold = Undefined
                THEN ConstantOf("EXPIRING_SOON_DAYS") ELSE daysThreshold
        thresholdDate == addDays(today, days)
    IN  isAfter(Num(expiryDate), Num(today)) /\ isBefore(Num(expiryDate), thresholdDate)

\* isExpired(expiryDate); `today` is the value its `new Date()` returns
isExpired(expiryDate, today) == isBefore(Num(expiryDate), Num(today))

----------------------------------------------------------------------------
(* product-list (useState generation): its private badge helpers *)

\* Math.ceil(a / b) for b > 0
CeilDiv(a, b) == -((-a) \div b)

\* ProductList.isLowStock(quantity)
ListIsLowStock(quantity) ==
    Less(Num(quantity), ConstantOf("LOW_STOCK_THRESHOLD"))

\* ProductList.isExpiringSoon(expiryDate)
ListIsExpiringSoon(expiryDate, today) ==
    LET diffTime == expiryDate - today
        diffDays == CeilDiv(diffTime, TicksPerDay)
    IN  LessEq(Num(diffDays), ConstantOf("EXPIRY_WARNING_DAYS"))

\* renderStatusBadges(product): the badges of one row
renderStatusBadges(p, today) ==
    (IF ListIsLowStock(p.stockQuantity) THEN {"Low Stock"} ELSE {})
    \cup (IF ListIsExpiringSoon(p.expiryDate, today) THEN {"Expiring Soon"} ELSE {})

----------------------------------------------------------------------------
(* product-list (useQuery generation): getStatusText *)

getStatusText_noZeroCheck(p, today1, today2) ==
    IF isLowStock(p.stockQuantity, p.minimumStockThreshold) THEN "Low Stock"
    ELSE IF isExpired(p.expiryDate, today1) THEN "Expired"
    ELSE IF isExpiringSoon(p.expiryDate, Undefined, today2) THEN "Expiring Soon"
    ELSE "In Stock"

\* getStatusText(product); today1 and today2 are the clock readings of its
\* isExpired and isExpiringSoon calls
getStatusText(p, today1, today2) ==
    IF p.stockQuantity = 0 THEN "Out of Stock"
    ELSE IF isLowStock(p.stockQuantity, p.minimumStockThreshold) THEN "Low Stock"
    ELSE IF isExpired(p.expiryDate, today1) THEN "Expired"
    ELSE IF isExpiringSoon(p.expiryDate, Undefined, today2) THEN "Expiring Soon"
    ELSE "In Stock"

----------------------------------------------------------------------------
(* molecules/product-status-badge.tsx *)

\* ProductStatusBadge({product}): the set of badges it returns
ProductStatusBadge(p, today) ==
    LET lowStock == isLowStock(p.stockQuantity, Undefined)
        expiringSoon == isExpiringSoon(p.expiryDate, Undefined, today)
    IN  IF lowStock /\ expiringSoon THEN {"Low Stock", "Expiring Soon"}
        ELSE IF lowStock THEN {"Low Stock"}
        ELSE IF expiringSoon THEN {"Expiring Soon"}
        ELSE {"In Stock"}

----------------------------------------------------------------------------
(* The status classifier as a state machine: a product row arrives, the    *)
(* clock advances, and a status cell is rendered by one of the components. *)

NoShown == [component |-> "none", labels |-> {}, today1 |-> 0, today2 |-> 0]

Quantities == 0 .. MaxQty

Thresholds == {Undefined} \cup {Num(n) : n \in 1 .. MaxQty}

ExpiryDates == 0 .. (MaxDays * TicksPerDay)

\* a product row (stockQuantity, minimumStockThreshold?, expiryDate) is on screen
InitStatus ==
    /\ constants \in {INVENTORY_CONSTANTS_defaults, INVENTORY_CONSTANTS_thresholds}
    /\ now = Epoch
    /\ product \in [stockQuantity : Quantities, minimumStockThreshold : Thresholds,
                    expiryDate : ExpiryDates]
    /\ shown = NoShown

\* time passes
Tick ==
    /\ now < Epoch + MaxTicks
    /\ now' = now + 1
    /\ UNCHANGED <<constants, product, shown>>
    /\ UNCHANGED <<apiVars, tripVars, uiVars, partVars>>

\* the lib/utils predicates applied to the product at one clock reading
EvalUtils ==
    /\ shown' = [component |-> "utils",
                 labels |->
                    (IF isLowStock(product.stockQuantity, product.minimumStockThreshold)
                     THEN {"isLowStock"} ELSE {})
                    \cup (IF isExpired(product.expiryDate, now)
                          THEN {"isExpired"} ELSE {})
                    \cup (IF isExpiringSoon(product.expiryDate, Undefined, now)
                          THEN {"isExpiringSoon"} ELSE {}),
                 today1 |-> now, today2 |-> now]
    /\ UNCHANGED <<constants, now, product>>
    /\ UNCHANGED <<apiVars, tripVars, uiVars, partVars>>

\* the status cell of the useQuery product list: getStatusText(product);
\* the clock may advance between its two `new Date()` readings
RenderStatusText ==
    \E dt \in 0 .. 1 :
        /\ now + dt <= Epoch + MaxTicks
        /\ shown' = [component |-> "getStatusText",
                     labels |-> {getStatusText(product, now, now + dt)},
                     today1 |-> now, today2 |-> now + dt]
        /\ now' = now + dt
        /\ UNCHANGED <<constants, product>>
        /\ UNCHANGED <<apiVars, tripVars, uiVars, partVars>>

\* the status cell of InventoryTable: <ProductStatusBadge product={product} />
RenderProductStatusBadge ==
    /\ shown' = [component |-> "ProductStatusBadge",
                 labels |-> ProductStatusBadge(product, now),
                 today1 |-> now, today2 |-> now]
    /\ UNCHANGED <<constants, now, product>>
    /\ UNCHANGED <<apiVars, tripVars, uiVars, partVars>>

\* the status cell of the useState product list: renderStatusBadges(product)
RenderStatusBadges ==
    /\ shown' = [component |-> "renderStatusBadges",
                 labels |-> renderStatusBadges(product, now),
                 today1 |-> now, today2 |-> now]
    /\ UNCHANGED <<constants, now, product>>
    /\ UNCHANGED <<apiVars, tripVars, uiVars, partVars>>

NextStatus ==
    \/ Tick
    \/ EvalUtils
    \/ RenderStatusText
    \/ RenderProductStatusBadge
    \/ RenderStatusBadges

----------------------------------------------------------------------------
(* Strings are sequences of characters, so that the key translators can be *)
(* computed as the code computes them.                                     *)

LowerCase == <<"a", "b", "c", "d", "e", "f", "g", "h", "i", "j", "k", "l", "m",
               "n", "o", "p", "q", "r", "s", "t", "u", "v", "w", "x", "y", "z">>

UpperCase == <<"A", "B", "C", "D", "E", "F", "G", "H", "I", "J", "K", "L", "M",
               "N", "O", "P", "Q", "R", "S", "T", "U", "V", "W", "X", "Y", "Z">>

Range(f) == {f[i] : i \in DOMAIN f}

LowerLetters == Range(LowerCase)

UpperLetters == Range(UpperCase)

IndexIn(alphabet, c) == CHOOSE i \in DOMAIN alphabet : alphabet[i] = c

\* String.prototype.toUpperCase / toLowerCase on one letter
toUpperCase(c) == IF c \in LowerLetters THEN UpperCase[IndexIn(LowerCase, c)] ELSE c

toLowerCase(c) == IF c \in UpperLetters THEN LowerCase[IndexIn(UpperCase, c)] ELSE c

\* the product field names, in the server's and in the client's convention
K_id == <<"i", "d">>

K_name == <<"n", "a", "m", "e">>

K_description == <<"d", "e", "s", "c", "r", "i", "p", "t", "i", "o", "n">>

K_price == <<"p", "r", "i", "c", "e">>

K_stock_quantity == <<"s", "t", "o", "c", "k", "_", "q", "u", "a", "n", "t", "i", "t", "y">>

K_category == <<"c", "a", "t", "e", "g", "o", "r", "y">>

K_supplier == <<"s", "u", "p", "p", "l", "i", "e", "r">>

K_expiry_date == <<"e", "x", "p", "i", "r", "y", "_", "d", "a", "t", "e">>

K_created_at == <<"c", "r", "e", "a", "t", "e", "d", "_", "a", "t">>

K_updated_at == <<"u", "p", "d", "a", "t", "e", "d", "_", "a", "t">>

K_minimum_stock_threshold == <<"m", "i", "n", "i", "m", "u", "m", "_", "s", "t", "o", "c", "k", "_", "t", "h", "r", "e", "s", "h", "o", "l", "d">>

K_stockQuantity == <<"s", "t", "o", "c", "k", "Q", "u", "a", "n", "t", "i", "t", "y">>

K_expiryDate == <<"e", "x", "p", "i", "r", "y", "D", "a", "t", "e">>

K_createdAt == <<"c", "r", "e", "a", "t", "e", "d", "A", "t">>

K_updatedAt == <<"u", "p", "d", "a", "t", "e", "d", "A", "t">>

K_minimumStockThreshold == <<"m", "i", "n", "i", "m", "u", "m", "S", "t", "o", "c", "k", "T", "h", "r", "e", "s", "h", "o", "l", "d">>

----------------------------------------------------------------------------
(* lib/utils.ts: snakeToCamel, camelToSnake *)

RECURSIVE SnakeFrom(_, _)
\* str.replace(/_([a-z])/g, (_, letter) => letter.toUpperCase()), from index i
SnakeFrom(str, i) ==
    IF i > Len(str) THEN << >>
    ELSE IF str[i] = "_" /\ i < Len(str) /\ str[i + 1] \in LowerLetters
         THEN <<toUpperCase(str[i + 1])>> \o SnakeFrom(str, i + 2)
         ELSE <<str[i]>> \o SnakeFrom(str, i + 1)

snakeToCamel_dropUnderscore(str) == SelectSeq(str, LAMBDA c : c # "_")

snakeToCamel(str) == SnakeFrom(str, 1)

RECURSIVE CamelFrom(_, _)
\* str.replace(/([A-Z])/g, (letter) => `_${letter.toLowerCase()}`), from index i
CamelFrom(str, i) ==
    IF i > Len(str) THEN << >>
    ELSE IF str[i] \in UpperLetters
         THEN <<"_", toLowerCase(str[i])>> \o CamelFrom(str, i + 1)
         ELSE <<str[i]>> \o CamelFrom(str, i + 1)

camelToSnake_lowerOnly(str) == [i \in DOMAIN str |-> toLowerCase(str[i])]

camelToSnake(str) == CamelFrom(str, 1)

----------------------------------------------------------------------------
(* JavaScript values carried by a payload: numbers (prices in hundredths), *)
(* strings and undefined                                                   *)

UndefinedValue == [type |-> "undefined", n |-> 0, s |-> << >>]

NumberValue(n) == [type |-> "number", n |-> n, s |-> << >>]

StringValue(s) == [type |-> "string", n |-> 0, s |-> s]

NaN == [type |-> "number", n |-> 0, s |-> <<"N", "a", "N">>]

\* obj.key: undefined when the object has no such property
Get(obj, key) == IF key \in DOMAIN obj THEN obj[key] ELSE UndefinedValue

Digits == <<"0", "1", "2", "3", "4", "5", "6", "7", "8", "9">>

DigitChars == Range(Digits)

DigitValue(c) == IndexIn(Digits, c) - 1

RECURSIVE DigitsEnd(_, _)
\* the index after the run of digits of s that starts at i
DigitsEnd(s, i) ==
    IF i <= Len(s) /\ s[i] \in DigitChars THEN DigitsEnd(s, i + 1) ELSE i

RECURSIVE DigitsValue(_, _, _)
\* the decimal value of s[i .. j-1]
DigitsValue(s, i, j) ==
    IF j <= i THEN 0 ELSE DigitsValue(s, i, j - 1) * 10 + DigitValue(s[j - 1])

\* the value of unsigned decimal text, in hundredths: the longest numeric
\* prefix is parsed, NaN when there is none (fraction digits past the second
\* are below the model's resolution)
UnsignedFloat(s) ==
    LET intEnd == DigitsEnd(s, 1)
        hasDot == intEnd <= Len(s) /\ s[intEnd] = "."
        fracEnd == IF hasDot THEN DigitsEnd(s, intEnd + 1) ELSE intEnd
        nFrac == IF hasDot THEN fracEnd - (intEnd + 1) ELSE 0
        frac == IF nFrac = 0 THEN 0
                ELSE IF nFrac = 1 THEN DigitValue(s[intEnd + 1]) * 10
                ELSE DigitValue(s[intEnd + 1]) * 10 + DigitValue(s[intEnd + 2])
    IN  IF intEnd = 1 /\ nFrac = 0 THEN NaN
        ELSE NumberValue(DigitsValue(s, 1, intEnd) * 100 + frac)

\* parseFloat(s) for decimal text with an optional sign
parseFloat(s) ==
    IF s # << >> /\ Head(s) \in {"-", "+"}
    THEN LET v == UnsignedFloat(Tail(s))
         IN  IF v = NaN \/ Head(s) = "+" THEN v ELSE NumberValue(0 - v.n)
    ELSE UnsignedFloat(s)

----------------------------------------------------------------------------
(* services/api.ts (generic generation): key-by-key translation *)

\* Object.entries(data).reduce((acc, [key, value]) => { acc[snakeToCamel(key)] = value;
\* return acc }, {}); the product field names never collide after translation
transformResponseData(data) ==
    [k2 \in {snakeToCamel(k) : k \in DOMAIN data} |->
        data[CHOOSE k \in DOMAIN data : snakeToCamel(k) = k2]]

\* the same reduce with camelToSnake
transformRequestData(data) ==
    [k2 \in {camelToSnake(k) : k \in DOMAIN data} |->
        data[CHOOSE k \in DOMAIN data : camelToSnake(k) = k2]]

----------------------------------------------------------------------------
(* lib/transformers: field-by-field translation *)

transformApiProduct(apiProduct) ==
    (K_id :> Get(apiProduct, K_id))
    @@ (K_name :> Get(apiProduct, K_name))
    @@ (K_description :> Get(apiProduct, K_description))
    @@ (K_price :> IF Get(apiProduct, K_price).type = "string"
                   THEN parseFloat(Get(apiProduct, K_price).s)
                   ELSE Get(apiProduct, K_price))
    @@ (K_stockQuantity :> Get(apiProduct, K_stock_quantity))
    @@ (K_category :> Get(apiProduct, K_category))
    @@ (K_supplier :> Get(apiProduct, K_supplier))
    @@ (K_expiryDate :> Get(apiProduct, K_expiry_date))
    @@ (K_createdAt :> Get(apiProduct, K_created_at))
    @@ (K_updatedAt :> Get(apiProduct, K_updated_at))

transformNewProductToApi(p) ==
    (K_name :> Get(p, K_name))
    @@ (K_description :> Get(p, K_description))
    @@ (K_price :> Get(p, K_price))
    @@ (K_stock_quantity :> Get(p, K_stockQuantity))
    @@ (K_category :> Get(p, K_category))
    @@ (K_supplier :> Get(p, K_supplier))
    @@ (K_expiry_date :> Get(p, K_expiryDate))

transformProductToApi(p) ==
    (K_id :> Get(p, K_id))
    @@ (K_name :> Get(p, K_name))
    @@ (K_description :> Get(p, K_description))
    @@ (K_price :> Get(p, K_price))
    @@ (K_stock_quantity :> Get(p, K_stockQuantity))
    @@ (K_category :> Get(p, K_category))
    @@ (K_supplier :> Get(p, K_supplier))
    @@ (K_expiry_date :> Get(p, K_expiryDate))

\* axios' default transformRequest: JSON.stringify(data), which leaves out
\* every property whose value is undefined
Serialize(data) ==
    [k \in {k \in DOMAIN data : data[k].type # "undefined"} |-> data[k]]

----------------------------------------------------------------------------
(* Payloads the model draws its inputs from *)

\* how many products a list response holds at most
MaxProducts == 2

\* price as the server may send it: a number, or decimal text
ServerPrices ==
    {NumberValue(1250), StringValue(<<"1", "2", ".", "5", "0">>),
     StringValue(<<"7">>), StringValue(<<"0", ".", "5">>)}

\* a server product record with the given id, price, stock_quantity and
\* (optional) minimum_stock_threshold
ServerProduct(id, price, qty, threshold) ==
    (K_id :> NumberValue(id))
    @@ (K_name :> StringValue(<<"A">>))
    @@ (K_description :> StringValue(<<"B">>))
    @@ (K_price :> price)
    @@ (K_stock_quantity :> NumberValue(qty))
    @@ (K_category :> StringValue(<<"C">>))
    @@ (K_supplier :> StringValue(<<"D">>))
    @@ (K_expiry_date :> StringValue(<<"E">>))
    @@ (K_created_at :> StringValue(<<"F">>))
    @@ (K_updated_at :> StringValue(<<"G">>))
    @@ (IF threshold = Undefined THEN << >>
        ELSE (K_minimum_stock_threshold :> NumberValue(threshold[1])))

ServerProducts(id) ==
    {ServerProduct(id, price, qty, t) :
        price \in ServerPrices, qty \in {0, 5}, t \in {Undefined, Num(20)}}

\* the collections the server may hold: up to MaxProducts records, ids 1, 2, ...
RECURSIVE ServerCollections(_)
ServerCollections(n) ==
    IF n = 0 THEN {<< >>}
    ELSE {Append(c, r) : c \in ServerCollections(n - 1),
                         r \in {ServerProduct(n, price, 5, Undefined) : price \in ServerPrices}}

\* the seven fields a product form holds (NewProduct), with the optional
\* minimumStockThreshold of ProductFormData
FormProduct(description, price, qty, threshold) ==
    (K_name :> StringValue(<<"A">>))
    @@ (K_description :> StringValue(description))
    @@ (K_price :> NumberValue(price))
    @@ (K_stockQuantity :> NumberValue(qty))
    @@ (K_category :> StringValue(<<"C">>))
    @@ (K_supplier :> StringValue(<<"D">>))
    @@ (K_expiryDate :> StringValue(<<"E">>))
    @@ (IF threshold = Undefined THEN << >>
        ELSE (K_minimumStockThreshold :> NumberValue(threshold[1])))

FormProducts ==
    {FormProduct(description, price, qty, t) :
        description \in {<< >>, <<"B">>}, price \in {0, 1250},
        qty \in {5}, t \in {Undefined, Num(20)}}

\* a client Product: the form fields plus id, createdAt and updatedAt
ClientProducts ==
    {f @@ (K_id :> NumberValue(1)) @@ (K_createdAt :> StringValue(<<"F">>))
       @@ (K_updatedAt :> StringValue(<<"G">>)) : f \in FormProducts}

ProductKeys ==
    {K_id, K_name, K_description, K_price, K_stockQuantity, K_category,
     K_supplier, K_expiryDate, K_createdAt, K_updatedAt}

NewProductKeys ==
    {K_name, K_description, K_price, K_stockQuantity, K_category,
     K_supplier, K_expiryDate}

----------------------------------------------------------------------------
(* The translators applied back to back *)

NoOutput == [impl |-> "none", payload |-> << >>]

\* a payload in the server's or in the client's convention is at hand
NoTrip == [dir |-> "none", input |-> << >>, out |-> NoOutput]

InitTranslate ==
    trip \in [dir : {"server"}, input : ServerProducts(1), out : {NoOutput}]
             \cup [dir : {"client"}, input : FormProducts \cup ClientProducts,
                   out : {NoOutput}]
   
\* server payload -> client -> server, with snakeToCamel / camelToSnake
RoundTripServerGeneric ==
    /\ trip.dir = "server"
    /\ trip' = [trip EXCEPT !.out =
          [impl |-> "generic",
           payload |-> transformRequestData(transformResponseData(trip.input))]]
    /\ UNCHANGED <<statusVars, apiVars, uiVars, partVars>>

\* server payload -> client -> server, with transformApiProduct / transformProductToApi
RoundTripServerTransformers ==
    /\ trip.dir = "server"
    /\ trip' = [trip EXCEPT !.out =
          [impl |-> "transformers",
           payload |-> transformProductToApi(transformApiProduct(trip.input))]]
    /\ UNCHANGED <<statusVars, apiVars, uiVars, partVars>>

\* client payload -> server -> client, with camelToSnake / snakeToCamel
RoundTripClientGeneric ==
    /\ trip.dir = "client"
    /\ trip' = [trip EXCEPT !.out =
          [impl |-> "generic",
           payload |-> transformResponseData(transformRequestData(trip.input))]]
    /\ UNCHANGED <<statusVars, apiVars, uiVars, partVars>>

\* client payload -> server -> client, with transformNewProductToApi / transformApiProduct
RoundTripClientNew ==
    /\ trip.dir = "client"
    /\ trip' = [trip EXCEPT !.out =
          [impl |-> "transformNewProductToApi",
           payload |-> transformApiProduct(transformNewProductToApi(trip.input))]]
    /\ UNCHANGED <<statusVars, apiVars, uiVars, partVars>>

\* client payload -> server -> client, with transformProductToApi / transformApiProduct
RoundTripClientUpdate ==
    /\ trip.dir = "client"
    /\ trip' = [trip EXCEPT !.out =
          [impl |-> "transformProductToApi",
           payload |-> transformApiProduct(transformProductToApi(trip.input))]]
    /\ UNCHANGED <<statusVars, apiVars, uiVars, partVars>>

NextTranslate ==
    \/ RoundTripServerGeneric
    \/ RoundTripServerTransformers
    \/ RoundTripClientGeneric
    \/ RoundTripClientNew
    \/ RoundTripClientUpdate

----------------------------------------------------------------------------
(* services/api.ts: the inventoryApi calls.  A call puts a request on the  *)
(* wire and, when the server answers, hands translated products to the UI. *)

\* baseURL of the axios instance
API_BASE_URL ==
    IF apiVariant = "generic" THEN <<"http://localhost:8000", "api">>
    ELSE <<"http://localhost:8000", "api", "v1">>

\* a URL relative to the base: the fixed segments of the path, then the id
\* (0 when the path has none)
Url(segments, id) == [base |-> API_BASE_URL, segments |-> segments, id |-> id]

\* the collection path getProducts and createProduct use
ProductsPath ==
    IF apiVariant = "generic" THEN <<"inventory", "products">> ELSE <<"products">>

\* `/inventory/products/${id}/` in the one api.ts, `/products/${id}/` in the
\* other: the resource getProductById / getProduct and updateProduct address
ProductUrl(id) == Url(ProductsPath, id)

\* the path of deleteProduct: `/inventory/products/${id}/` in both
DeleteUrl(id) == Url(<<"inventory", "products">>, id)

NoWire == [op |-> "none", method |-> "none", url |-> Url(<< >>, 0), body |-> << >>,
           settled |-> "none"]

Request(op, method, url, body, ok) ==
    [op |-> op, method |-> method, url |-> url, body |-> body,
     settled |-> IF ok THEN "resolved" ELSE "rejected"]

\* the translation a read applies to one record of the response
FromServer(record) ==
    IF apiVariant = "generic" THEN transformResponseData(record)
    ELSE transformApiProduct(record)

\* response.data.map(transform), or nothing handed over when the request throws
Handed(records, ok) ==
    IF ok THEN [i \in DOMAIN records |-> FromServer(records[i])] ELSE << >>

\* the body createProduct posts
CreateBody(data) ==
    IF apiVariant = "generic" THEN transformRequestData(data)
    ELSE transformNewProductToApi(data)

UpdateBody_withId(id, data) ==
    (IF apiVariant = "generic" THEN transformRequestData(data)
     ELSE transformProductToApi(data)) @@ (K_id :> NumberValue(id))

\* the body updateProduct(id, data) puts; the id goes into the URL
UpdateBody(id, data) ==
    IF apiVariant = "generic" THEN transformRequestData(data)
    ELSE transformProductToApi(data)

\* inventoryApi.getProducts()
GetProducts ==
    \E ok \in BOOLEAN :
        /\ wire' = Request("getProducts", "GET", Url(ProductsPath, 0), << >>, ok)
        /\ handed' = Handed(server, ok)
        /\ UNCHANGED <<apiVariant, server, form>>
        /\ UNCHANGED <<statusVars, tripVars, uiVars, partVars>>

\* inventoryApi.getProductById(id) / inventoryApi.getProduct(id)
GetProduct ==
    \E id \in DOMAIN server, ok \in BOOLEAN :
        /\ wire' = Request("getProduct", "GET", ProductUrl(id), << >>, ok)
        /\ handed' = Handed(<<server[id]>>, ok)
        /\ UNCHANGED <<apiVariant, server, form>>
        /\ UNCHANGED <<statusVars, tripVars, uiVars, partVars>>

\* inventoryApi.getLowStockProducts(): the server answers with part of its collection
GetLowStockProducts ==
    /\ apiVariant = "transformers"
    /\ \E n \in 0 .. Len(server), ok \in BOOLEAN :
          /\ wire' = Request("getLowStockProducts", "GET",
                           Url(<<"products", "low-stock">>, 0), << >>, ok)
          /\ handed' = Handed(SubSeq(server, 1, n), ok)
    /\ UNCHANGED <<apiVariant, server, form>>
    /\ UNCHANGED <<statusVars, tripVars, uiVars, partVars>>

\* inventoryApi.getExpiringProducts(): the server answers with part of its collection
GetExpiringProducts ==
    /\ apiVariant = "transformers"
    /\ \E n \in 0 .. Len(server), ok \in BOOLEAN :
          /\ wire' = Request("getExpiringProducts", "GET",
                           Url(<<"products", "expiring">>, 0), << >>, ok)
          /\ handed' = Handed(SubSeq(server, 1, n), ok)
    /\ UNCHANGED <<apiVariant, server, form>>
    /\ UNCHANGED <<statusVars, tripVars, uiVars, partVars>>

\* inventoryApi.createProduct(data), data being what a product form holds;
\* the server answers with the created record
CreateProduct ==
    \E created \in DOMAIN server, ok \in BOOLEAN :
        /\ wire' = Request("createProduct", "POST", Url(ProductsPath, 0),
                         Serialize(CreateBody(form)), ok)
        /\ handed' = Handed(<<server[created]>>, ok)
        /\ UNCHANGED <<apiVariant, server, form>>
        /\ UNCHANGED <<statusVars, tripVars, uiVars, partVars>>

\* inventoryApi.updateProduct(id, data), data being what a product form holds;
\* the server answers with the updated record
UpdateProduct ==
    \E id \in DOMAIN server, ok \in BOOLEAN :
        /\ wire' = Request("updateProduct", "PUT", ProductUrl(id),
                         Serialize(UpdateBody(id, form)), ok)
        /\ handed' = Handed(<<server[id]>>, ok)
        /\ UNCHANGED <<apiVariant, server, form>>
        /\ UNCHANGED <<statusVars, tripVars, uiVars, partVars>>

\* inventoryApi.deleteProduct(id): the call hands nothing over
DeleteProduct ==
    \E id \in DOMAIN server, ok \in BOOLEAN :
        /\ wire' = Request("deleteProduct", "DELETE", DeleteUrl(id), << >>, ok)
        /\ handed' = << >>
        /\ UNCHANGED <<apiVariant, server, form>>
        /\ UNCHANGED <<statusVars, tripVars, uiVars, partVars>>

NextApi ==
    \/ GetProducts
    \/ GetProduct
    \/ GetLowStockProducts
    \/ GetExpiringProducts
    \/ CreateProduct
    \/ UpdateProduct

\* the calls that address one product
NextAddress ==
    \/ GetProduct
    \/ UpdateProduct
    \/ DeleteProduct

----------------------------------------------------------------------------
(* The screens.  The repository holds two assemblies of its components:    *)
(*   "store": InventoryTable, ProductFormModal and DeleteConfirmationModal *)
(*            over the zustand store and the react-query hooks;            *)
(*   "app":   the App component: the useState ProductList, ProductForm and *)
(*            the store's DeleteConfirmationModal.                         *)
(* A modal is mounted while its open flag is set ({flag && <Modal/>}).     *)

Wirings == {"store", "app"}

\* how many create/update/delete requests the model keeps in flight at most
MaxFlights == 2

\* how many product ids the server hands out
MaxIds == 2

\* how often the App raises refreshTrigger
MaxRefresh == 2

\* the text c repeated n times
Repeat(c, n) == [i \in 1 .. n |-> c]

\* String.prototype.trim() for text whose only white space is the blank
trim(s) ==
    LET inked == {i \in DOMAIN s : s[i] # " "}
    IN  IF inked = {} THEN << >>
        ELSE SubSeq(s, CHOOSE i \in inked : \A j \in inked : i <= j,
                       CHOOSE i \in inked : \A j \in inked : j <= i)

IsNaN(v) == v = NaN

\* the values of a product form: text fields are strings, price and
\* stockQuantity are numbers in hundredths (NaN for an empty number input)
FormState(name, description, price, stockQuantity, category, supplier, expiryDate) ==
    [name |-> name, description |-> description, price |-> price,
     stockQuantity |-> stockQuantity, category |-> category,
     supplier |-> supplier, expiryDate |-> expiryDate]

FormFields == DOMAIN FormState(<< >>, << >>, NaN, NaN, << >>, << >>, << >>)

\* useState<NewProduct>({name: '', description: '', price: 0, ...})
EmptyForm == FormState(<< >>, << >>, NumberValue(0), NumberValue(0), << >>, << >>, << >>)

\* a Product of the list: the form fields and the id
ProductOf(id, data) == [f \in FormFields \cup {"id"} |-> IF f = "id" THEN id ELSE data[f]]

\* selectedProduct: null
NoProduct == ProductOf(0, EmptyForm)

\* populateFormWithProduct(product) / defaultValues of useForm
populateFormWithProduct(p) == [f \in FormFields |-> p[f]]

\* parseFieldValue(fieldName, value): parseFloat(value) || 0 for the number fields
parseFieldValue(fieldName, value) ==
    IF fieldName \in {"price", "stockQuantity"}
    THEN LET v == parseFloat(value)
         IN  IF IsNaN(v) \/ v.n = 0 THEN NumberValue(0) ELSE v
    ELSE value

NoError == ""

\* validateForm(): the message of the first failing check, NoError when all pass
validateForm(data) ==
    IF trim(data.name) = << >> THEN "Product name is required"
    ELSE IF ~IsNaN(data.price) /\ data.price.n <= 0 THEN "Price must be greater than 0"
    ELSE IF ~IsNaN(data.stockQuantity) /\ data.stockQuantity.n < 0
         THEN "Stock quantity cannot be negative"
    ELSE IF trim(data.category) = << >> THEN "Category is required"
    ELSE IF trim(data.supplier) = << >> THEN "Supplier is required"
    ELSE IF data.expiryDate = << >> THEN "Expiry date is required"
    ELSE NoError

\* productSchema.safeParse(data): the fields with an issue
productSchema(data) ==
    {f \in FormFields :
        \/ f = "name" /\ (Len(data.name) < 1 \/ Len(data.name) > 100)
        \/ f = "description" /\ Len(data.description) > 500
        \/ f = "price" /\ (IsNaN(data.price) \/ data.price.n < 0
                              \/ data.price.n > 999999 * 100)
        \/ f = "stockQuantity" /\ (IsNaN(data.stockQuantity)
                                      \/ data.stockQuantity.n % 100 # 0
                                      \/ data.stockQuantity.n < 0)
        \/ f \in {"category", "supplier", "expiryDate"} /\ Len(data[f]) < 1}

\* the lowest request slot that is free
FreeSlots == (1 .. MaxFlights) \ {f.slot : f \in flights}

NextSlot == CHOOSE n \in FreeSlots : \A m \in FreeSlots : n <= m

\* inventoryApi.updateProduct(product.id, data) when a product is being edited,
\* inventoryApi.createProduct(data) otherwise; the request belongs to the
\* mounted form
SaveRequest(data) ==
    [slot |-> NextSlot,
     op |-> IF ui.selectedProduct = NoProduct THEN "create" ELSE "update",
     id |-> ui.selectedProduct.id,
     payload |-> data,
     mounted |-> TRUE]

otherVars == <<constants, now, product, shown, apiVariant, server, form, handed, wire, trip,
               query, store, picker>>

\* ProductForm.handleInputChange on the number inputs
HandleInputChange ==
    /\ wiring = "app"
    /\ ui.showForm
    /\ \E name \in {"price", "stockQuantity"},
          value \in {<< >>, <<"0">>, <<"7">>, <<"2", ".", "5">>, <<"-", "1">>} :
            formData' = [formData EXCEPT ![name] = parseFieldValue(name, value)]
    /\ UNCHANGED <<wiring, ui, list, flights, fetches, db>>
    /\ UNCHANGED otherVars

\* ProductForm.handleSubmit: the submit button is disabled while loading
SubmitProductForm ==
    /\ wiring = "app"
    /\ ui.showForm
    /\ ~ui.loading
    /\ IF validateForm(formData) # NoError
       THEN /\ ui' = [ui EXCEPT !.error = validateForm(formData)]
            /\ UNCHANGED flights
       ELSE /\ FreeSlots # {}
            /\ ui.refreshTrigger + Cardinality(flights) < MaxRefresh
            /\ ui' = [ui EXCEPT !.loading = TRUE, !.error = NoError]
            /\ flights' = flights \cup {SaveRequest(formData)}
    /\ UNCHANGED <<wiring, formData, list, fetches, db>>
    /\ UNCHANGED otherVars

\* ProductFormModal: handleSubmit(onSubmit) of react-hook-form with the zod
\* resolver; the modal renders nothing without a product, and its submit button
\* is disabled while isSubmitting
SubmitProductFormModal ==
    /\ wiring = "store"
    /\ ui.showForm
    /\ ui.selectedProduct # NoProduct
    /\ ~ui.loading
    /\ IF productSchema(formData) # {}
       THEN /\ ui' = [ui EXCEPT !.fieldErrors = productSchema(formData)]
            /\ UNCHANGED flights
       ELSE /\ FreeSlots # {}
            /\ ui' = [ui EXCEPT !.loading = TRUE, !.fieldErrors = {}]
            /\ flights' = flights \cup {SaveRequest(formData)}
    /\ UNCHANGED <<wiring, formData, list, fetches, db>>
    /\ UNCHANGED otherVars

NextForm ==
    \/ HandleInputChange
    \/ SubmitProductForm
    \/ SubmitProductFormModal

----------------------------------------------------------------------------
(* The product list and its fetches *)

\* ProductFiltersOptions; an absent text predicate is the empty string
Filters(category, supplier, lowStock, expiringSoon) ==
    [category |-> category, supplier |-> supplier,
     lowStock |-> lowStock, expiringSoon |-> expiringSoon]

\* useState<ProductFiltersOptions>({}) / filters: {}
NoFilters == Filters(<< >>, << >>, FALSE, FALSE)

\* String.prototype.toLowerCase on a text
LowerText(s) == [i \in DOMAIN s |-> toLowerCase(s[i])]

\* String.prototype.includes
includes(s, sub) ==
    \E i \in 0 .. (Len(s) - Len(sub)) : SubSeq(s, i + 1, i + Len(sub)) = sub

filterByCategory(products, category) ==
    SelectSeq(products, LAMBDA p : includes(LowerText(p.category), LowerText(category)))

filterBySupplier(products, supplier) ==
    SelectSeq(products, LAMBDA p : includes(LowerText(p.supplier), LowerText(supplier)))

\* ProductFilters.handleFilterToggle on one of the two shortcut buttons
handleFilterToggle(filters, filterKey) ==
    [filters EXCEPT ![filterKey] = ~filters[filterKey]]

\* a clear that resets the text predicates and the low-stock shortcut only
clearAllFilters_KeepsExpiring(filters) ==
    [filters EXCEPT !.category = << >>, !.supplier = << >>, !.lowStock = FALSE]

\* ProductFilters.clearAllFilters: what it hands to onFiltersChange
clearAllFilters(filters) ==
    [category |-> << >>, supplier |-> << >>, lowStock |-> FALSE, expiringSoon |-> FALSE]

\* ProductFilters.hasActiveFilters: an empty string and false are falsy
hasActiveFilters(filters) ==
    \/ filters.category # << >>
    \/ filters.supplier # << >>
    \/ filters.lowStock
    \/ filters.expiringSoon

\* ProductList.applyClientFilters
applyClientFilters(products, filters) ==
    LET byCategory == IF filters.category # << >>
                      THEN filterByCategory(products, filters.category) ELSE products
    IN  IF filters.supplier # << >>
        THEN filterBySupplier(byCategory, filters.supplier) ELSE byCategory

\* a routing that tests the expiring shortcut before the low-stock one
EndpointOf_ExpiringFirst(filters) ==
    IF filters.expiringSoon THEN "getExpiringProducts"
    ELSE IF filters.lowStock THEN "getLowStockProducts"
    ELSE "getProducts"

\* which endpoint a fetch with these filters calls (both evaluators route alike)
EndpointOf(filters) ==
    IF filters.lowStock THEN "getLowStockProducts"
    ELSE IF filters.expiringSoon THEN "getExpiringProducts"
    ELSE "getProducts"

\* ProductList.getFilteredProducts, given what each endpoint answers
getFilteredProducts(filters, answers) == answers[EndpointOf(filters)]

\* what ProductList.fetchProducts hands to setProducts
fetchProducts(filters, answers) ==
    applyClientFilters(getFilteredProducts(filters, answers), filters)

\* the queryFn of useProducts
useProducts(filters, answers) ==
    IF filters.lowStock THEN answers["getLowStockProducts"]
    ELSE IF filters.expiringSoon THEN answers["getExpiringProducts"]
    ELSE applyClientFilters(answers["getProducts"], filters)

\* the collection a fetch of this assembly yields
Evaluate(filters, answers) ==
    IF wiring = "app" THEN fetchProducts(filters, answers)
    ELSE useProducts(filters, answers)

\* what the list renders: the guards are tested in this order in ProductList
\* and in InventoryTable
View ==
    IF list.loading THEN "loading"
    ELSE IF list.error # NoError THEN "error"
    ELSE IF list.products = << >> THEN "empty"
    ELSE "table"

\* the FilterSpec and refresh trigger a fetch is issued for; useProducts keys
\* its query by the filters alone
FetchKey == [filters |-> ui.filters,
             refreshTrigger |-> IF wiring = "app" THEN ui.refreshTrigger ELSE 0]

NoKey == [filters |-> NoFilters, refreshTrigger |-> 0 - 1]

\* a modal covers the page (fixed inset-0), so the list's buttons, the header
\* and the filters are out of reach while one is rendered
ModalRendered ==
    \/ ui.isDeleteDialogOpen /\ ui.productToDelete # 0
    \/ ui.showForm /\ (wiring = "app" \/ ui.selectedProduct # NoProduct)

\* ProductList: useEffect(() => fetchProducts(), [filters, refreshTrigger]), run
\* for `key`; InventoryTable: the query observer of `key` starts or restarts its fetch
StartFetch(key, keyChanged) ==
    /\ fetches' = fetches \cup {key}
    /\ list' = IF wiring = "app"
               THEN [list EXCEPT !.loading = TRUE, !.error = NoError]
               ELSE IF keyChanged
               THEN [products |-> << >>, loading |-> TRUE, error |-> NoError,
                     fetchedFor |-> NoKey]
               ELSE list

RECURSIVE Listed(_)
\* response.data: the products of a collection as an array, in the order of their ids
Listed(products) ==
    IF products = {} THEN << >>
    ELSE LET first == CHOOSE p \in products : \A q \in products : p.id <= q.id
         IN  <<first>> \o Listed(products \ {first})

\* what the server's endpoints answer: every product of this machine is low on
\* stock and close to expiry, so the dedicated endpoints answer the whole collection
Answers ==
    [e \in {"getProducts", "getLowStockProducts", "getExpiringProducts"} |-> Listed(db)]

\* a fetch resolves: setProducts(...) and, finally, setLoading(false); a query
\* result reaches the table only when it is for the observed key
FetchSucceeds ==
    \E key \in fetches :
        /\ fetches' = fetches \ {key}
        /\ list' = IF wiring = "app"
                   THEN [list EXCEPT !.products = Evaluate(key.filters, Answers),
                                     !.loading = FALSE,
                                     !.fetchedFor = key]
                   ELSE IF key = FetchKey
                   THEN [products |-> Evaluate(key.filters, Answers),
                         loading |-> FALSE, error |-> NoError, fetchedFor |-> key]
                   ELSE list
        /\ UNCHANGED <<wiring, ui, formData, flights, db>>
        /\ UNCHANGED otherVars

\* a fetch rejects: handleFetchError and, finally, setLoading(false); the query
\* goes to its error state once its retries are used up
FetchFails ==
    \E key \in fetches :
        /\ fetches' = fetches \ {key}
        /\ list' = IF wiring = "app" \/ key = FetchKey
                   THEN [list EXCEPT !.loading = FALSE,
                                     !.error = "Error fetching products"]
                   ELSE list
        /\ UNCHANGED <<wiring, ui, formData, flights, db>>
        /\ UNCHANGED otherVars

\* onFiltersChange={setFilters} / the store's setFilters
SetFilters ==
    \E category \in {<< >>, <<"a">>}, lowStock \in BOOLEAN, expiringSoon \in BOOLEAN :
        /\ ~ModalRendered
        /\ ui.filters # Filters(category, << >>, lowStock, expiringSoon)
        /\ ui' = [ui EXCEPT !.filters = Filters(category, << >>, lowStock, expiringSoon)]
        /\ StartFetch([FetchKey EXCEPT
                          !.filters = Filters(category, << >>, lowStock, expiringSoon)],
                      TRUE)
        /\ UNCHANGED <<wiring, formData, flights, db>>
        /\ UNCHANGED otherVars

\* the "Clear all" button of ProductFilters, rendered while a filter is active /
\* the store's clearFilters
ClearAllFilters ==
    /\ ~ModalRendered
    /\ hasActiveFilters(ui.filters)
    /\ ui' = [ui EXCEPT !.filters = IF wiring = "app" THEN clearAllFilters(ui.filters)
                                    ELSE NoFilters]
    /\ StartFetch([FetchKey EXCEPT !.filters = ui'.filters], TRUE)
    /\ UNCHANGED <<wiring, formData, flights, db>>
    /\ UNCHANGED otherVars

----------------------------------------------------------------------------
(* Opening and closing the modals, and the mutations *)

\* the store's initial state and the App's useState initial values
IdleScreen ==
    [showForm |-> FALSE, selectedProduct |-> NoProduct,
     loading |-> FALSE, error |-> NoError, fieldErrors |-> {},
     isDeleteDialogOpen |-> FALSE, productToDelete |-> 0, deletePending |-> FALSE,
     filters |-> NoFilters, refreshTrigger |-> 0]

\* closing the form unmounts it: the requests it sent stay in flight, and the
\* next form starts from its initial state
Unmount(requests) ==
    {[f EXCEPT !.mounted = (f.op = "delete" /\ f.mounted)] : f \in requests}

\* handleCloseForm: setShowForm(false); setSelectedProduct(null) / closeForm()
FormClosed(screen) ==
    [screen EXCEPT !.showForm = FALSE, !.selectedProduct = NoProduct,
                   !.loading = FALSE, !.error = NoError, !.fieldErrors = {}]

\* closeDeleteDialog()
DeleteDialogClosed(screen) ==
    [screen EXCEPT !.isDeleteDialogOpen = FALSE, !.productToDelete = 0,
                   !.deletePending = FALSE]

\* App.handleAddProduct
HandleAddProduct ==
    /\ wiring = "app"
    /\ ~ModalRendered
    /\ ui' = [FormClosed(ui) EXCEPT !.showForm = TRUE]
    /\ formData' = EmptyForm
    /\ UNCHANGED <<wiring, list, flights, fetches, db>>
    /\ UNCHANGED otherVars

\* App.handleEditProduct(product) / InventoryTable.handleEdit(product), from
\* the Edit button of a row that is shown
HandleEditProduct ==
    \E p \in Range(list.products) :
        /\ View = "table"
        /\ ~ModalRendered
        /\ ui' = [FormClosed(ui) EXCEPT !.showForm = TRUE, !.selectedProduct = p]
        /\ formData' = populateFormWithProduct(p)
        /\ UNCHANGED <<wiring, list, flights, fetches, db>>
        /\ UNCHANGED otherVars

\* the Cancel and X buttons of the form: onClose / handleClose; neither is
\* disabled while ProductForm is loading, the X of ProductFormModal is not
\* disabled while it is submitting
HandleCloseForm ==
    /\ ui.showForm
    /\ wiring = "app" \/ ui.selectedProduct # NoProduct
    /\ ui' = FormClosed(ui)
    /\ formData' = EmptyForm
    /\ flights' = Unmount(flights)
    /\ UNCHANGED <<wiring, list, fetches, db>>
    /\ UNCHANGED otherVars

\* a new product's fields as the user fills them in
NewDraft ==
    FormState(<<"N">>, << >>, NumberValue(1250), NumberValue(500),
              <<"A", "b">>, <<"D">>, <<"E">>)

\* the user fills in the add form, or changes the description in the edit form
EditForm ==
    /\ ui.showForm
    /\ wiring = "app" \/ ui.selectedProduct # NoProduct
    /\ ~ui.loading
    /\ formData' = IF ui.selectedProduct = NoProduct THEN NewDraft
                   ELSE [formData EXCEPT !.description =
                            IF formData.description = << >> THEN <<"B">> ELSE << >>]
    /\ formData' # formData
    /\ UNCHANGED <<wiring, ui, list, flights, fetches, db>>
    /\ UNCHANGED otherVars

\* the ids the server has not given to a product yet
FreeIds == (1 .. MaxIds) \ {p.id : p \in db}

\* the collection after the server has carried out a create or an update
Saved(f, id) == {p \in db : p.id # id} \cup {ProductOf(id, f.payload)}

\* a create or update request resolves.
\* "app": ProductForm.handleSubmit goes on after its await: onSave() raises
\* refreshTrigger, which makes ProductList fetch, and onClose() closes the form.
\* "store": onSuccess of the mutation hook invalidates the products queries and
\* calls closeForm(); onSubmit then calls reset() and closeForm().
SaveSucceeds ==
    \E f \in flights, id \in 1 .. MaxIds :
        /\ f.op \in {"create", "update"}
        /\ IF f.op = "create" THEN id \in FreeIds /\ \A other \in FreeIds : id <= other
           ELSE id = f.id /\ id \notin FreeIds
        /\ db' = Saved(f, id)
        /\ flights' = Unmount(flights \ {f})
        /\ ui' = [FormClosed(ui) EXCEPT !.refreshTrigger =
                    IF wiring = "app" THEN @ + 1 ELSE @]
        /\ formData' = EmptyForm
        /\ StartFetch([FetchKey EXCEPT !.refreshTrigger =
                          IF wiring = "app" THEN @ + 1 ELSE @], FALSE)
        /\ UNCHANGED wiring
        /\ UNCHANGED otherVars

\* a create or update request rejects.
\* "app": handleSubmitError sets the form's error, finally setLoading(false).
\* "store": onSubmit's catch logs the error; isSubmitting goes back to false.
\* A form that was unmounted meanwhile has no state left to set.
SaveFails ==
    \E f \in flights :
        /\ f.op \in {"create", "update"}
        /\ flights' = flights \ {f}
        /\ ui' = IF ~f.mounted THEN ui
                 ELSE IF wiring = "app"
                 THEN [ui EXCEPT !.loading = FALSE,
                                 !.error = "Failed to save product. Please try again."]
                 ELSE [ui EXCEPT !.loading = FALSE]
        /\ UNCHANGED <<wiring, formData, list, fetches, db>>
        /\ UNCHANGED otherVars

\* App.handleDeleteProduct(id) / InventoryTable.handleDelete(id): openDeleteDialog(id)
HandleDeleteProduct ==
    \E p \in Range(list.products) :
        /\ View = "table"
        /\ ~ModalRendered
        /\ ui' = [ui EXCEPT !.isDeleteDialogOpen = TRUE, !.productToDelete = p.id,
                            !.deletePending = FALSE]
        /\ UNCHANGED <<wiring, formData, list, flights, fetches, db>>
        /\ UNCHANGED otherVars

\* the Cancel button of DeleteConfirmationModal, disabled while isPending
CloseDeleteDialog ==
    /\ ui.isDeleteDialogOpen /\ ui.productToDelete # 0
    /\ ~ui.deletePending
    /\ ui' = DeleteDialogClosed(ui)
    /\ UNCHANGED <<wiring, formData, list, flights, fetches, db>>
    /\ UNCHANGED otherVars

\* DeleteConfirmationModal.handleConfirmDelete, its button disabled while isPending
HandleConfirmDelete ==
    /\ ui.isDeleteDialogOpen /\ ui.productToDelete # 0
    /\ ~ui.deletePending
    /\ FreeSlots # {}
    /\ flights' = flights \cup
          {[slot |-> NextSlot, op |-> "delete", id |-> ui.productToDelete,
            payload |-> EmptyForm, mounted |-> TRUE]}
    /\ ui' = [ui EXCEPT !.deletePending = TRUE]
    /\ UNCHANGED <<wiring, formData, list, fetches, db>>
    /\ UNCHANGED otherVars

\* a delete request resolves: onSuccess of useDeleteProduct invalidates the
\* products queries and calls closeDeleteDialog().  Only InventoryTable reads
\* the collection through a query; ProductList fetches on filters and
\* refreshTrigger alone.
DeleteSucceeds ==
    \E f \in flights :
        /\ f.op = "delete"
        /\ f.id \notin FreeIds
        /\ db' = {p \in db : p.id # f.id}
        /\ flights' = flights \ {f}
        /\ ui' = DeleteDialogClosed(ui)
        /\ IF wiring = "store" THEN StartFetch(FetchKey, FALSE)
           ELSE UNCHANGED <<list, fetches>>
        /\ UNCHANGED <<wiring, formData>>
        /\ UNCHANGED otherVars

\* a delete request rejects: handleConfirmDelete's catch logs the error
DeleteFails ==
    \E f \in flights :
        /\ f.op = "delete"
        /\ flights' = flights \ {f}
        /\ ui' = [ui EXCEPT !.deletePending = FALSE]
        /\ UNCHANGED <<wiring, formData, list, fetches, db>>
        /\ UNCHANGED otherVars

\* the list under changing filters
NextFetch ==
    \/ SetFilters
    \/ ClearAllFilters
    \/ FetchSucceeds
    \/ FetchFails

\* the modals and their requests, the list refetching behind them
NextMutate ==
    \/ FetchSucceeds
    \/ FetchFails
    \/ HandleAddProduct
    \/ HandleEditProduct
    \/ HandleCloseForm
    \/ EditForm
    \/ SubmitProductForm
    \/ SubmitProductFormModal
    \/ SaveSucceeds
    \/ SaveFails
    \/ HandleDeleteProduct
    \/ CloseDeleteDialog
    \/ HandleConfirmDelete
    \/ DeleteSucceeds
    \/ DeleteFails

\* the products the server starts with
Product1 ==
    ProductOf(1, FormState(<<"A">>, << >>, NumberValue(1250), NumberValue(500),
                           <<"A", "b">>, <<"D">>, <<"E">>))

Product2 ==
    ProductOf(2, FormState(<<"B">>, << >>, NumberValue(700), NumberValue(0),
                           <<"c", "d">>, <<"D">>, <<"E">>))

\* the list right after mounting: loading, its first fetch in flight
InitScreens ==
    /\ wiring \in Wirings
    /\ ui = IdleScreen
    /\ formData = EmptyForm
    /\ list = [products |-> << >>, loading |-> TRUE, error |-> NoError,
               fetchedFor |-> NoKey]
    /\ flights = {}
    /\ fetches = {[filters |-> NoFilters, refreshTrigger |-> 0]}
    /\ db \in SUBSET {Product1, Product2}

\* the form states validation is tried on
FormStates ==
    {FormState(name, description, price, stockQuantity, category, <<"D">>, expiryDate) :
        name \in {<< >>, <<" ">>, <<"A">>, Repeat("a", 100), Repeat("a", 101)},
        description \in {<< >>, Repeat("d", 501)},
        price \in {NumberValue(0), NumberValue(1250), NumberValue(0 - 100)},
        stockQuantity \in {NumberValue(0 - 100), NumberValue(0), NumberValue(500),
                           NumberValue(250)},
        category \in {<< >>, <<"C">>},
        expiryDate \in {<< >>, <<"E">>}}

\* a product form open on a new or an existing product, holding any form state
InitForm ==
    /\ wiring \in Wirings
    /\ \E p \in {NoProduct, Product1} :
          ui = [IdleScreen EXCEPT !.showForm = TRUE, !.selectedProduct = p]
    /\ formData \in FormStates
    /\ list = [products |-> <<Product1>>, loading |-> FALSE, error |-> NoError,
               fetchedFor |-> [filters |-> NoFilters, refreshTrigger |-> 0]]
    /\ flights = {}
    /\ fetches = {}
    /\ db = {Product1}

IdleScreens ==
    /\ wiring = "app"
    /\ ui = IdleScreen
    /\ formData = EmptyForm
    /\ list = [products |-> << >>, loading |-> FALSE, error |-> NoError,
               fetchedFor |-> [filters |-> NoFilters, refreshTrigger |-> 0]]
    /\ flights = {}
    /\ fetches = {}
    /\ db = {}

----------------------------------------------------------------------------
(* The query-driven product list and its filter bar *)

\* ProductFilters: searchTerm, category, stockStatus, expiryStatus
QueryFilters(searchTerm, category, stockStatus, expiryStatus) ==
    [searchTerm |-> searchTerm, category |-> category,
     stockStatus |-> stockStatus, expiryStatus |-> expiryStatus]

\* the useState initial value of ProductList, and what handleClearFilters sets
NoQueryFilters == QueryFilters(<< >>, << >>, "all", "all")

handleSearchChange(filters, value) == [filters EXCEPT !.searchTerm = value]

handleCategoryChange(filters, value) == [filters EXCEPT !.category = value]

handleStockStatusChange(filters, value) == [filters EXCEPT !.stockStatus = value]

handleExpiryStatusChange(filters, value) == [filters EXCEPT !.expiryStatus = value]

handleClearFilters(filters) == NoQueryFilters

\* a row of the table: the fields the list shows and classifies
Row(id, name, description, category, stockQuantity, expiryDate) ==
    [id |-> id, name |-> name, description |-> description, category |-> category,
     stockQuantity |-> stockQuantity, minimumStockThreshold |-> Undefined,
     expiryDate |-> expiryDate]

\* the collection on the server: out of stock, low on stock and expired, in stock
QueryCatalog ==
    {Row(1, <<"A", "b">>, << >>, <<"x">>, 0, Epoch + 31 * TicksPerDay),
     Row(2, <<"c">>, <<"x", "A">>, <<"y">>, 5, 0),
     Row(3, <<"d">>, << >>, <<"x">>, 11, Epoch + TicksPerDay)}

\* the query of ProductList before its first answer
IdleQuery == [filters |-> NoQueryFilters, data |-> << >>, status |-> "loading"]

\* handleFilterChange(newFilters): setFilters gives the query a new key, and the
\* list shows "Loading products..." until the answer for that key is there
handleFilterChange(newFilters) ==
    [filters |-> newFilters, data |-> << >>, status |-> "loading"]

queryFrame == <<statusVars, apiVars, tripVars, uiVars, store, picker>>

\* the filter bar is rendered only next to the table
HandleSearchChange ==
    /\ query.status = "success"
    /\ \E value \in {<< >>, <<"a">>} :
          /\ value # query.filters.searchTerm
          /\ query' = handleFilterChange(handleSearchChange(query.filters, value))
    /\ UNCHANGED queryFrame

HandleCategoryChange ==
    /\ query.status = "success"
    /\ \E value \in {<< >>, <<"x">>} :
          /\ value # query.filters.category
          /\ query' = handleFilterChange(handleCategoryChange(query.filters, value))
    /\ UNCHANGED queryFrame

HandleStockStatusChange ==
    /\ query.status = "success"
    /\ \E value \in {"all", "inStock", "lowStock", "outOfStock"} :
          /\ value # query.filters.stockStatus
          /\ query' = handleFilterChange(handleStockStatusChange(query.filters, value))
    /\ UNCHANGED queryFrame

HandleExpiryStatusChange ==
    /\ query.status = "success"
    /\ \E value \in {"all", "expired", "expiringSoon", "valid"} :
          /\ value # query.filters.expiryStatus
          /\ query' = handleFilterChange(handleExpiryStatusChange(query.filters, value))
    /\ UNCHANGED queryFrame

HandleClearFilters ==
    /\ query.status = "success"
    /\ query.filters # handleClearFilters(query.filters)
    /\ query' = handleFilterChange(handleClearFilters(query.filters))
    /\ UNCHANGED queryFrame

\* queryFn: inventoryApi.getProducts(filters) sends the filters as query
\* parameters and hands over response.data as it is; which products the server
\* answers with for these parameters is the server's choice
QueryResolves ==
    /\ query.status = "loading"
    /\ \E answer \in SUBSET QueryCatalog :
          query' = [query EXCEPT !.data = Listed(answer), !.status = "success"]
    /\ UNCHANGED queryFrame

\* the request fails: isError, "Error loading products"
QueryRejects ==
    /\ query.status = "loading"
    /\ query' = [query EXCEPT !.status = "error"]
    /\ UNCHANGED queryFrame

NextQuery ==
    \/ HandleSearchChange
    \/ HandleCategoryChange
    \/ HandleStockStatusChange
    \/ HandleExpiryStatusChange
    \/ HandleClearFilters
    \/ QueryResolves
    \/ QueryRejects

----------------------------------------------------------------------------
(* The inventory store *)

\* null, for productToDelete: number | null
Null == << >>

\* the initial state of useInventoryStore
InitialStore ==
    [products |-> << >>, filters |-> NoFilters, isLoading |-> FALSE, error |-> NoError,
     selectedProduct |-> NoProduct, isFormOpen |-> FALSE,
     isDeleteDialogOpen |-> FALSE, productToDelete |-> Null]

setProducts(s, products) == [s EXCEPT !.products = products]

setFilters(s, filters) == [s EXCEPT !.filters = filters]

setLoading(s, isLoading) == [s EXCEPT !.isLoading = isLoading]

setError(s, error) == [s EXCEPT !.error = error]

setSelectedProduct(s, selectedProduct) == [s EXCEPT !.selectedProduct = selectedProduct]

\* openForm(product?): selectedProduct: product || null
openForm(s, p) == [s EXCEPT !.isFormOpen = TRUE, !.selectedProduct = p]

closeForm(s) == [s EXCEPT !.isFormOpen = FALSE, !.selectedProduct = NoProduct]

openDeleteDialog(s, productId) ==
    [s EXCEPT !.isDeleteDialogOpen = TRUE, !.productToDelete = Num(productId)]

\* a close that lowers the flag and keeps the id
closeDeleteDialog_KeepsId(s) == [s EXCEPT !.isDeleteDialogOpen = FALSE]

closeDeleteDialog(s) ==
    [s EXCEPT !.isDeleteDialogOpen = FALSE, !.productToDelete = Null]

clearFilters(s) == [s EXCEPT !.filters = NoFilters]

\* what ProductFormModal({ product }) renders: nothing without a product
ProductFormModal(p) == IF p = NoProduct THEN "nothing" ELSE "Edit Product"

\* the mutation onSubmit of ProductFormModal would call for this product
onSubmit(p) == IF p # NoProduct THEN "updateProduct" ELSE "createProduct"

storeFrame == <<statusVars, apiVars, tripVars, uiVars, query, picker>>

SetProducts ==
    /\ \E products \in {<< >>, <<Product1>>} : store' = setProducts(store, products)
    /\ UNCHANGED storeFrame

StoreSetFilters ==
    /\ \E filters \in {NoFilters, Filters(<<"a">>, << >>, TRUE, FALSE)} :
          store' = setFilters(store, filters)
    /\ UNCHANGED storeFrame

SetLoading ==
    /\ \E isLoading \in BOOLEAN : store' = setLoading(store, isLoading)
    /\ UNCHANGED storeFrame

SetError ==
    /\ \E error \in {NoError, "Error fetching products"} : store' = setError(store, error)
    /\ UNCHANGED storeFrame

SetSelectedProduct ==
    /\ \E p \in {NoProduct, Product1} : store' = setSelectedProduct(store, p)
    /\ UNCHANGED storeFrame

OpenForm ==
    /\ \E p \in {NoProduct, Product1, Product2} : store' = openForm(store, p)
    /\ UNCHANGED storeFrame

CloseForm ==
    /\ store' = closeForm(store)
    /\ UNCHANGED storeFrame

OpenDeleteDialog ==
    /\ \E productId \in 0 .. MaxIds : store' = openDeleteDialog(store, productId)
    /\ UNCHANGED storeFrame

StoreCloseDeleteDialog ==
    /\ store' = closeDeleteDialog(store)
    /\ UNCHANGED storeFrame

ClearFilters ==
    /\ store' = clearFilters(store)
    /\ UNCHANGED storeFrame

NextStore ==
    \/ SetProducts
    \/ StoreSetFilters
    \/ SetLoading
    \/ SetError
    \/ SetSelectedProduct
    \/ OpenForm
    \/ CloseForm
    \/ OpenDeleteDialog
    \/ StoreCloseDeleteDialog
    \/ ClearFilters

----------------------------------------------------------------------------
(* DatePickerInput: a yyyy-MM-dd value kept in step with a Date *)

\* the days a value may name, counted from some first day
MaxPickDay == 4

HoursPerDay == 24

\* the local time zones: local time = UTC + offset hours
Offsets == (0 - 12) .. 14

\* new Date("yyyy-MM-dd"): a date-only string is taken as midnight UTC
DateOfValue(day) == Num(day * HoursPerDay)

\* the Date the calendar hands to onSelect: midnight of the day in local time
DateOfCalendar(day, offset) == Num(day * HoursPerDay - offset)

\* format(date, "yyyy-MM-dd"): the day of the instant in local time
FormatLocal(date, offset) == (date[1] + offset) \div HoursPerDay

\* value: '' (no date yet)
NoDay == 0 - 1

\* the picker as first rendered: useState(value ? new Date(value) : undefined),
\* both effects due after the first render
Mounted(value, offset) ==
    [value |-> value, passed |-> value, reported |-> NoDay,
     date |-> IF value # NoDay THEN DateOfValue(value) ELSE Undefined,
     offset |-> offset, reportDue |-> TRUE, syncDue |-> TRUE]

IdlePicker == Mounted(NoDay, 0)

\* the first effect reports in this pass
Reports == picker.reportDue /\ picker.date # Undefined

\* the effects that are due after a render run, in the order they are declared.
\* First effect ([date, onChange]): if (date) onChange(format(date, "yyyy-MM-dd"));
\* the form stores the string in a new formData object and renders again with
\* it as value and with a new onChange function.
\* Second effect ([value]): setDate(value ? new Date(value) : undefined), a new
\* Date object each time.
RunEffects ==
    /\ picker.reportDue \/ picker.syncDue
    /\ Reports => FormatLocal(picker.date, picker.offset) >= 0
    /\ LET value == IF Reports THEN FormatLocal(picker.date, picker.offset)
                    ELSE picker.value
           date == IF ~picker.syncDue THEN picker.date
                   ELSE IF picker.value # NoDay THEN DateOfValue(picker.value)
                   ELSE Undefined
       IN  picker' = [picker EXCEPT
                        !.value = value,
                        !.reported = IF Reports THEN value ELSE @,
                        !.date = date,
                        !.reportDue = Reports \/ (picker.syncDue /\ date # Undefined),
                        !.syncDue = value # picker.value]
    /\ UNCHANGED <<statusVars, apiVars, tripVars, uiVars, query, store>>

\* the user picks a day in the calendar: onSelect={setDate}
SelectDate ==
    /\ ~picker.reportDue /\ ~picker.syncDue
    /\ \E day \in 1 .. MaxPickDay :
          picker' = [picker EXCEPT !.date = DateOfCalendar(day, picker.offset),
                                   !.passed = day,
                                   !.reportDue = TRUE]
    /\ UNCHANGED <<statusVars, apiVars, tripVars, uiVars, query, store>>

NextPicker ==
    \/ RunEffects
    \/ SelectDate

\* a form field holding no date or a valid one, in any time zone
InitPicker ==
    \E value \in {NoDay} \cup (1 .. MaxPickDay), offset \in Offsets :
        picker = Mounted(value, offset)

\* the parts that the other specifications leave at rest
IdleParts ==
    /\ query = IdleQuery
    /\ store = InitialStore
    /\ picker = IdlePicker

----------------------------------------------------------------------------
(* Specifications: one per part of the program, the other parts at rest *)

IdleStatus ==
    /\ constants = INVENTORY_CONSTANTS_defaults
    /\ now = Epoch
    /\ product = [stockQuantity |-> 0, minimumStockThreshold |-> Undefined,
                  expiryDate |-> Epoch]
    /\ shown = NoShown

IdleApi ==
    /\ apiVariant = "generic"
    /\ server = <<ServerProduct(1, NumberValue(1250), 5, Undefined)>>
    /\ form = FormProduct(<< >>, 0, 5, Undefined)
    /\ handed = << >>
    /\ wire = NoWire

\* a build of the API layer, a server collection, and a form ready to submit
InitApi ==
    /\ apiVariant \in {"generic", "transformers"}
    /\ server \in UNION {ServerCollections(n) : n \in 1 .. MaxProducts}
    /\ form \in FormProducts
    /\ handed = << >>
    /\ wire = NoWire

InitSpecStatus == InitStatus /\ IdleApi /\ trip = NoTrip /\ IdleScreens /\ IdleParts

InitSpecTranslate == IdleStatus /\ IdleApi /\ InitTranslate /\ IdleScreens /\ IdleParts

InitSpecApi == IdleStatus /\ InitApi /\ trip = NoTrip /\ IdleScreens /\ IdleParts

InitSpecForm == IdleStatus /\ IdleApi /\ trip = NoTrip /\ InitForm /\ IdleParts

InitSpecScreens == IdleStatus /\ IdleApi /\ trip = NoTrip /\ InitScreens /\ IdleParts

\* the status classifier
SpecStatus == InitSpecStatus /\ [][NextStatus]_vars

\* the field-name translators
SpecTranslate == InitSpecTranslate /\ [][NextTranslate]_vars

\* the API layer
SpecApi == InitSpecApi /\ [][NextApi]_vars

\* the API layer addressing single products
SpecAddress == InitSpecApi /\ [][NextAddress]_vars

\* validation and submission of the product forms
SpecForm == InitSpecForm /\ [][NextForm]_vars

\* the list refetching as its filters change
SpecFetch == InitSpecScreens /\ [][NextFetch]_vars

\* the modals, the requests in flight and the list behind them
SpecMutate == InitSpecScreens /\ [][NextMutate]_vars

InitSpecQuery ==
    /\ IdleStatus /\ IdleApi /\ trip = NoTrip /\ IdleScreens
    /\ query = IdleQuery /\ store = InitialStore /\ picker = IdlePicker

InitSpecStore ==
    /\ IdleStatus /\ IdleApi /\ trip = NoTrip /\ IdleScreens
    /\ query = IdleQuery /\ store = InitialStore /\ picker = IdlePicker

InitSpecPicker ==
    /\ IdleStatus /\ IdleApi /\ trip = NoTrip /\ IdleScreens
    /\ query = IdleQuery /\ store = InitialStore /\ InitPicker

\* the query-driven list under its filter bar
SpecQuery == InitSpecQuery /\ [][NextQuery]_vars

\* the inventory store under any sequence of its actions
SpecStore == InitSpecStore /\ [][NextStore]_vars

\* the date picker input and its effects
SpecPicker == InitSpecPicker /\ [][NextPicker]_vars

Init ==
    /\ InitStatus /\ InitApi /\ InitTranslate /\ (InitScreens \/ InitForm)
    /\ query = IdleQuery /\ store = InitialStore /\ InitPicker

Next ==
    \/ NextStatus \/ NextTranslate \/ NextApi \/ NextAddress \/ NextForm \/ NextFetch \/ NextMutate
    \/ NextQuery \/ NextStore \/ NextPicker

Spec == Init /\ [][Next]_vars

----------------------------------------------------------------------------
(* Claims about the status classifier (SpecStatus) *)

\* what was evaluated: the product's fields and the clock readings
Q == product.stockQuantity

T == product.minimumStockThreshold

D == product.expiryDate

Window == 30 * TicksPerDay

\* the stock family of a getStatusText label: the expiry labels and "In Stock"
\* are returned only once both stock checks have failed
StockStatus(label) ==
    IF label \in {"Out of Stock", "Low Stock"} THEN label ELSE "In Stock"

\* C1: for every quantity q >= 0 and threshold t >= 1 the stock status that
\* isLowStock and the quantity-zero check of getStatusText derive is "Low Stock"
\* exactly when 0 < q <= t, "Out of Stock" exactly when q = 0, and "In Stock"
\* in every other case.
C1_StockStatus ==
    /\ (shown.component = "getStatusText" /\ IsNum(T)) =>
          \A label \in shown.labels :
              /\ StockStatus(label) = "Low Stock" <=> (0 < Q /\ Q <= T[1])
              /\ StockStatus(label) = "Out of Stock" <=> Q = 0
              /\ StockStatus(label) = "In Stock" <=> Q > T[1]
    /\ (shown.component = "utils" /\ IsNum(T)) =>
          ("isLowStock" \in shown.labels <=> (0 < Q /\ Q <= T[1]))

\* C1 witness: a product whose quantity equals its threshold was rendered "Low Stock"
C1_Witness ==
    /\ shown.component = "getStatusText"
    /\ IsNum(T) /\ Q = T[1]
    /\ shown.labels = {"Low Stock"}

\* C2: isExpired(d) is true exactly when d < now, and isExpiringSoon(d) exactly
\* when now <= d < now + 30 days; a product expiring exactly now is not expired
\* and is expiring soon.  (Stated for the build whose INVENTORY_CONSTANTS has
\* the keys lib/utils reads.)
C2_ExpiryPredicates ==
    (shown.component = "utils" /\ constants = INVENTORY_CONSTANTS_defaults) =>
        /\ "isExpired" \in shown.labels <=> D < shown.today1
        /\ "isExpiringSoon" \in shown.labels
              <=> (shown.today1 <= D /\ D < shown.today1 + Window)

\* C3: every stock badge shows a product at its threshold as Low Stock, one at
\* threshold + 1 or at 0 not as Low Stock; the ProductList helper agrees with
\* lib/utils isLowStock (0 < q <= 10) on every quantity.  (Stated for the build
\* whose INVENTORY_CONSTANTS has the key the ProductList helper reads.)
C3_ListBadgeAgrees ==
    (shown.component = "renderStatusBadges"
        /\ constants = INVENTORY_CONSTANTS_thresholds) =>
        ("Low Stock" \in shown.labels <=> (0 < Q /\ Q <= 10))

\* C4: every expiry badge shows "Expiring Soon" exactly for products with
\* now <= expiryDate < now + 30 days: not at 30 or 31 days, not when expired.
\* (Each component is taken in the build whose INVENTORY_CONSTANTS has the key
\* it reads.)
C4_ExpiringSoonBadge ==
    (\/ shown.component = "renderStatusBadges"
           /\ constants = INVENTORY_CONSTANTS_thresholds
     \/ shown.component = "ProductStatusBadge"
           /\ constants = INVENTORY_CONSTANTS_defaults) =>
        ("Expiring Soon" \in shown.labels
            <=> (shown.today1 <= D /\ D < shown.today1 + Window))

\* C5: the expiry status shown depends only on expiryDate and now: an expired
\* product shows Expired and a soon-expiring one shows Expiring Soon whatever
\* its quantity.  (The instant expiryDate = now, which C2 is about, is left out.)
C5_ExpiryIndependentOfStock ==
    (shown.component \in {"getStatusText", "ProductStatusBadge"}
        /\ constants = INVENTORY_CONSTANTS_defaults
        /\ shown.today1 = shown.today2) =>
        /\ D < shown.today1 => "Expired" \in shown.labels
        /\ (shown.today1 < D /\ D < shown.today1 + Window)
              => "Expiring Soon" \in shown.labels

\* the threshold C6 says a call site applies
ApplicableThreshold == IF IsNum(T) THEN T[1] ELSE 10

\* C6: the low-stock threshold applied to a product is its own
\* minimumStockThreshold when it has one and the default 10 otherwise, at every
\* call site, and the default argument of isLowStock resolves to 10.  (Stated
\* for the build whose INVENTORY_CONSTANTS has the key lib/utils reads.)
C6_ThresholdApplied ==
    (shown.component \in {"getStatusText", "ProductStatusBadge"}
        /\ constants = INVENTORY_CONSTANTS_defaults) =>
        /\ ConstantOf("DEFAULT_MIN_STOCK") = Num(10)
        /\ "Low Stock" \in shown.labels <=> (0 < Q /\ Q <= ApplicableThreshold)

----------------------------------------------------------------------------
(* Claims about the field-name translators (SpecTranslate) *)

In == trip.input

Out == trip.out.payload

----------------------------------------------------------------------------
(* Claims about the API layer (SpecApi) *)

\* C9: every product a read operation hands to the UI has a numeric price.
C9_NumericPrice ==
    \A i \in DOMAIN handed : Get(handed[i], K_price).type = "number"

ServerAssignedKeys == {K_id, K_created_at, K_updated_at, K_createdAt, K_updatedAt}

\* C10: no create or update request body on the wire holds the key id,
\* created_at or updated_at, in either naming convention.
C10_NoServerAssignedKeys ==
    wire.method \in {"POST", "PUT"} => DOMAIN wire.body \cap ServerAssignedKeys = {}

\* C10 witness: an update went out through transformProductToApi
C10_Witness ==
    /\ apiVariant = "transformers"
    /\ wire.op = "updateProduct"
    /\ K_stock_quantity \in DOMAIN wire.body

----------------------------------------------------------------------------
(* Claims about form validation (SpecForm) *)

\* the create and update requests in flight
SaveFlights == {f \in flights : f.op \in {"create", "update"}}

\* C11: a form submitted with price 0 is rejected by validation and sends no
\* request: no create or update request carries a price of 0.
C11_ZeroPriceRejected ==
    \A f \in SaveFlights : f.payload.price # NumberValue(0)

\* the constraints on a payload, price apart
PayloadValid(data) ==
    /\ Len(data.name) >= 1 /\ Len(data.name) <= 100
    /\ Len(data.description) <= 500
    /\ ~IsNaN(data.stockQuantity)
    /\ data.stockQuantity.n >= 0 /\ data.stockQuantity.n % 100 = 0
    /\ Len(data.category) >= 1
    /\ Len(data.supplier) >= 1
    /\ Len(data.expiryDate) >= 1

\* C12: every payload that reaches createProduct or updateProduct has a name
\* of 1 to 100 characters, a description of at most 500, a non-negative
\* integer stock quantity, a category, a supplier and an expiry date.
C12_PayloadConstraints ==
    \A f \in SaveFlights : PayloadValid(f.payload)

----------------------------------------------------------------------------
(* Claims about the mutations and the modals (SpecMutate) *)

\* nothing is in flight and the list shows a collection
Settled ==
    /\ flights = {}
    /\ fetches = {}
    /\ View \in {"table", "empty"}

\* C13: after a create, update or delete succeeds the list is refetched, in
\* every assembly: once the requests and the fetches they caused are answered,
\* the collection shown is the server's collection under the current filters.
C13_ListReflectsMutations ==
    Settled => list.products = Evaluate(ui.filters, Answers)

\* a request sent by the modal that is still open is rejected in this step
FailedMounted ==
    /\ SaveFails \/ DeleteFails
    /\ \E f \in flights : f.mounted /\ f \notin flights'

\* C14: when a mutation fails, the form or dialog that sent it stays open and
\* shows an error message.
C14_FailureShown ==
    [][FailedMounted => ModalRendered' /\ ui'.error # NoError]_vars

\* a modal whose request is pending is closed in this step
PendingModalClosed ==
    \/ ui.showForm /\ ui.loading /\ ~ui'.showForm
    \/ ui.isDeleteDialogOpen /\ ui.deletePending /\ ~ui'.isDeleteDialogOpen

\* the request of the modal that is open succeeds in this step
SucceededMounted ==
    /\ SaveSucceeds \/ DeleteSucceeds
    /\ \E f \in flights : f.mounted /\ f \notin flights'

\* C15: a success closes the form and clears the selected product, a delete
\* success closes the dialog and clears productToDelete, and a modal whose
\* mutation is pending is closed by nothing but the success of that mutation.
C15_ClosedOnlyBySuccess ==
    [][/\ SaveSucceeds => ~ui'.showForm /\ ui'.selectedProduct = NoProduct
       /\ DeleteSucceeds => ~ui'.isDeleteDialogOpen /\ ui'.productToDelete = 0
       /\ PendingModalClosed => SucceededMounted]_vars

\* C16: at most one mutation is in flight for any one product.
C16_OneMutationPerProduct ==
    \A f, g \in flights : f.id # 0 /\ f.id = g.id => f = g

\* the answer to a request of a form that was closed meanwhile arrives in this step
LateResponse ==
    /\ SaveSucceeds \/ SaveFails
    /\ \E f \in flights : ~f.mounted /\ f \notin flights'

\* C17: a response that arrives after its form was closed changes neither
\* whether a form is open nor the selected product.
C17_LateResponseIgnored ==
    [][LateResponse => /\ ui'.showForm = ui.showForm
                       /\ ui'.selectedProduct = ui.selectedProduct]_vars

----------------------------------------------------------------------------
(* Claims about the list and its fetches (SpecFetch) *)

\* C18: a response to a superseded fetch never stays on display: whenever no
\* fetch is in flight and a collection is shown, it is the result of the fetch
\* issued for the current filters and refresh trigger.
C18_CurrentFetchShown ==
    fetches = {} /\ View \in {"table", "empty"} =>
        /\ list.fetchedFor = FetchKey
        /\ list.products = Evaluate(ui.filters, Answers)

\* the fetch issued for the current filters resolves in this step with no product
ZeroProductSuccess ==
    /\ FetchSucceeds
    /\ \E key \in fetches :
          key = FetchKey /\ key \notin fetches' /\ Evaluate(key.filters, Answers) = << >>

\* the fetch issued for the current filters rejects in this step
CurrentFetchFailure ==
    /\ FetchFails
    /\ \E key \in fetches : key = FetchKey /\ key \notin fetches'

\* C19: a failed fetch renders the error and never "No products found"; a
\* fetch that succeeds with zero products renders the empty view and no error.
C19_ErrorDistinctFromEmpty ==
    [][/\ CurrentFetchFailure => View' = "error"
       /\ ZeroProductSuccess => View' = "empty"]_vars

\* C20: with the lowStock or the expiringSoon shortcut the dedicated endpoint
\* is fetched and the category and supplier predicates are still applied, by
\* both evaluators: every product shown for such filters matches them.
C20_ShortcutKeepsPredicates ==
    LET shownFor == list.fetchedFor.filters
    IN  shownFor.lowStock \/ shownFor.expiringSoon =>
            \A p \in Range(list.products) :
                /\ includes(LowerText(p.category), LowerText(shownFor.category))
                /\ includes(LowerText(p.supplier), LowerText(shownFor.supplier))

----------------------------------------------------------------------------
(* Claims about the query-driven list (SpecQuery) *)

\* the search term occurs in the name or the description, whatever the case
MatchesSearch(p, term) ==
    \/ includes(LowerText(p.name), LowerText(term))
    \/ includes(LowerText(p.description), LowerText(term))

\* the stockStatus bucket the status classifier derives for a product
StockBucket(p) ==
    LET label == StockStatus(getStatusText(p, now, now))
    IN  IF label = "Out of Stock" THEN "outOfStock"
        ELSE IF label = "Low Stock" THEN "lowStock" ELSE "inStock"

\* the expiryStatus bucket the status classifier derives for a product
ExpiryBucket(p) ==
    IF isExpired(p.expiryDate, now) THEN "expired"
    ELSE IF isExpiringSoon(p.expiryDate, Undefined, now) THEN "expiringSoon"
    ELSE "valid"

\* C21: every product in the collection rendered for a FilterSpec contains the
\* search term in its name or description, has the derived stock status of the
\* stockStatus bucket unless that is 'all', and the derived expiry status of
\* the expiryStatus bucket unless that is 'all'.
C21_RenderedSatisfiesPredicates ==
    query.status = "success" =>
        \A p \in Range(query.data) :
            /\ MatchesSearch(p, query.filters.searchTerm)
            /\ query.filters.stockStatus \in {"all", StockBucket(p)}
            /\ query.filters.expiryStatus \in {"all", ExpiryBucket(p)}

----------------------------------------------------------------------------
(* Claims about the filter evaluators (SpecFetch) *)

\* the FilterSpecs the evaluators are compared on
FilterSpecs ==
    {Filters(category, supplier, lowStock, expiringSoon) :
        category \in {<< >>, <<"a">>}, supplier \in {<< >>, <<"d">>},
        lowStock \in BOOLEAN, expiringSoon \in BOOLEAN}

\* G has every predicate of F, and possibly more
Extends(F, G) ==
    /\ F.category \in {<< >>, G.category}
    /\ F.supplier \in {<< >>, G.supplier}
    /\ F.lowStock => G.lowStock
    /\ F.expiringSoon => G.expiringSoon

\* C22: filtering is conjunctive and monotone: what is shown for a FilterSpec F
\* contains the result, on the same upstream collection, of every FilterSpec
\* that adds predicates to F, and category and supplier give the same result
\* in either order.
C22_FilteringMonotone ==
    list.fetchedFor # NoKey =>
        /\ \A G \in FilterSpecs :
              Extends(list.fetchedFor.filters, G) =>
                  Range(Evaluate(G, Answers)) \subseteq Range(list.products)
        /\ \A G \in FilterSpecs :
              filterBySupplier(filterByCategory(list.products, G.category), G.supplier)
                = filterByCategory(filterBySupplier(list.products, G.supplier), G.category)

\* the FilterSpecs of the query-driven filter bar
QueryFilterSpecs ==
    {QueryFilters(searchTerm, category, stockStatus, expiryStatus) :
        searchTerm \in {<< >>, <<"a">>}, category \in {<< >>, <<"a">>},
        stockStatus \in {"all", "low-stock"}, expiryStatus \in {"all", "expired"}}

EndpointNames ==
    [e \in {"getProducts", "getLowStockProducts", "getExpiringProducts"} |->
        <<[id |-> e, category |-> <<"a">>, supplier |-> <<"d">>]>>]

\* the endpoints whose answer an evaluation of these filters is made of
FetchedEndpoints(filters) == {p.id : p \in Range(Evaluate(filters, EndpointNames))}

\* C24: every filter evaluation fetches exactly one upstream endpoint: the
\* low-stock one when lowStock is set, whether or not expiringSoon is set too,
\* else the expiring one when expiringSoon is set, else the unfiltered one.
C24_OneEndpointByPrecedence ==
    \A key \in fetches :
        LET F == key.filters
        IN  /\ Cardinality(FetchedEndpoints(F)) = 1
            /\ F.lowStock => FetchedEndpoints(F) = {"getLowStockProducts"}
            /\ (~F.lowStock /\ F.expiringSoon)
                  => FetchedEndpoints(F) = {"getExpiringProducts"}
            /\ (~F.lowStock /\ ~F.expiringSoon) => FetchedEndpoints(F) = {"getProducts"}

\* fetches for each of the three routes are in flight, one of them with both
\* shortcuts and a category set
C24_Witness ==
    /\ \E key \in fetches :
          key.filters.lowStock /\ key.filters.expiringSoon /\ key.filters.category # << >>
    /\ \E key \in fetches : ~key.filters.lowStock /\ key.filters.expiringSoon
    /\ \E key \in fetches : ~key.filters.lowStock /\ ~key.filters.expiringSoon

\* C25: the list shows its loading indicator as long as a fetch it issued is
\* in flight: a response that arrives while another fetch is pending does not
\* remove the indicator. (Of the query observer's fetches, the one for the
\* observed key counts.)
C25_LoadingWhileFetching ==
    (\E key \in fetches : wiring = "app" \/ key = FetchKey) => View = "loading"

----------------------------------------------------------------------------
(* Claims about the addressed resource (SpecAddress) *)

\* C26: deleteProduct(id) addresses the resource that getProduct(id) and
\* updateProduct(id) address: the same path products/{id} under the same base.
C26_DeleteAddressesSameResource ==
    wire.op = "deleteProduct" => wire.url = ProductUrl(wire.url.id)

----------------------------------------------------------------------------
(* Claims about the inventory store (SpecStore) *)

\* C27: after any sequence of store actions, a closed form has no selected
\* product: isFormOpen = false implies selectedProduct = null.
C27_ClosedFormNoSelection ==
    ~store.isFormOpen => store.selectedProduct = NoProduct

\* the store's fields outside `fields` are what they were before the step
StoreKeeps(fields) == \A f \in DOMAIN store \ fields : store'[f] = store[f]

\* C28: isDeleteDialogOpen is true exactly when productToDelete is not null,
\* and openForm, closeForm, openDeleteDialog, closeDeleteDialog and
\* clearFilters each leave every field other than their own unchanged.
C28_DeleteDialogFieldsAgree ==
    [][/\ store.isDeleteDialogOpen <=> store.productToDelete # Null
       /\ store'.isDeleteDialogOpen <=> store'.productToDelete # Null
       /\ (OpenForm \/ CloseForm) => StoreKeeps({"isFormOpen", "selectedProduct"})
       /\ (OpenDeleteDialog \/ StoreCloseDeleteDialog)
             => StoreKeeps({"isDeleteDialogOpen", "productToDelete"})
       /\ ClearFilters => StoreKeeps({"filters"})
      ]_vars

\* the delete dialog was opened for a product, closed and opened again for
\* product 0, with the form open on a product and a filter set
C28_Witness ==
    /\ store.isDeleteDialogOpen
    /\ store.productToDelete = Num(0)
    /\ store.isFormOpen
    /\ store.selectedProduct = Product2
    /\ store.filters # NoFilters
    /\ store.products # << >>

\* C29: the create path is reachable through the form modal: after openForm()
\* without a product, ProductFormModal renders a form, and submitting it creates.
C29_CreateFormRendered ==
    (store.isFormOpen /\ store.selectedProduct = NoProduct)
        => /\ ProductFormModal(store.selectedProduct) # "nothing"
           /\ onSubmit(store.selectedProduct) = "createProduct"

----------------------------------------------------------------------------
(* Claims about DatePickerInput (SpecPicker) *)

\* C30: the two effects of DatePickerInput leave the form value as it is: in
\* every time zone the string reported through onChange is the value passed in
\* (or the day picked in the calendar), never a day off.
C30_EffectsKeepValue ==
    picker.reported # NoDay => picker.reported = picker.passed

====
